---- MODULE Spec2Model ----
(***************************************************************************)
(* Asynchronous comparison jobs of opexr-tools: the JobManager             *)
(* (backend/job_manager.py), the background pipeline                       *)
(* DaskDuckDBComparator.compare_datasets_async and query_results           *)
(* (backend/compare_dask_duckdb.py) and the endpoints of                   *)
(* backend/api_dask_async.py.                                              *)
(*                                                                         *)
(* The API module holds two JobManager objects over the same jobs          *)
(* directory: its own `job_manager` and the one the comparator builds in   *)
(* its constructor.  Each has a private _jobs_cache; the job files and the *)
(* DuckDB result files are shared.                                         *)
(***************************************************************************)
EXTENDS Integers, Sequences, FiniteSets, TLC

\* ------------------------------------------------------------------ bounds
\* number of job ids (uuid4 values) that can be allocated
MaxJobs == 1
\* largest number of rows the merged frame can hold
MaxRows == 1

Jobs == 1..MaxJobs

\* ------------------------------------------------------------- JobStatus
PENDING == "pending"
LOADING_DATA == "loading_data"
AGGREGATING == "aggregating"
MAPPING == "mapping"
MERGING == "merging"
STORING == "storing"
COMPLETED == "completed"
FAILED == "failed"
CANCELLED == "cancelled"

JobStatus ==
    {PENDING, LOADING_DATA, AGGREGATING, MAPPING, MERGING, STORING,
     COMPLETED, FAILED, CANCELLED}

\* --------------------------------------------------------------- managers
\* "api": job_manager of api_dask_async.py; "cmp": comparator.job_manager
Managers == {"api", "cmp"}

\* Python None for the string-valued fields and for a missing record / file
None == "None"
\* None for the timestamps started_at and completed_at (the times are 1, 2, ...)
NoTime == 0
NoJob == [job_id |-> 0]
NoDb == [exists |-> FALSE]
NoResp == [op |-> "none"]
NotSeen == << >>

\* the exception messages: a step of the pipeline failing, and update_job's
\* ValueError(f"Job {job_id} not found")
ErrStep == "step failed"
ErrNotFound == "Job not found"

VARIABLES
    jobs_dir,      \* job id -> the record in jobs_dir/<job_id>.json, or NoJob
    jobs_cache,    \* manager -> job id -> the record in its _jobs_cache, or NoJob
    results_dir,   \* job id -> the DuckDB file results/<job_id>.duckdb, or NoDb
    task,          \* job id -> the state of its run of compare_datasets_async
    next_id,       \* number of job ids allocated so far
    resp,          \* what the call made in the last step returned (NoResp: no call)
    seen           \* job id -> <<the progress a client that logs its status polls
                   \* was given last for the job while it was not in a terminal
                   \* state>>, else NotSeen (history; only SpecPolls keeps the log)

\* the data the pipeline and the queries work on (used by the specifications
\* of the data path below; the job specifications leave them alone)
VARIABLES
    mappings_cache,      \* DaskDataComparator.mappings_cache as the two
                         \* dictionaries emp_map and wt_map built from it
    ecc_ddf,             \* the records of the ECC (source) dataset, in file order
    ecp_ddf,             \* the records of the ECP (target) dataset, in file order
    result_df,           \* merged.compute(): the rows of the merged frame, or None
    comparison_results,  \* the rows of the table comparison_results of a
                         \* completed job, in storage order
    request,             \* the page_size, sort_by and filter_status a client uses
    responses,           \* what its query_results calls returned, in call order
    Amount,              \* a value of the column 'Amount', as a string
    amount,              \* normalize_amount_column's value for it, or None
    now                  \* datetime.now(): the time, in ticks of the clock

jobVars == <<jobs_dir, jobs_cache, results_dir, task, next_id, resp, seen>>

dataVars ==
    <<mappings_cache, ecc_ddf, ecp_ddf, result_df, comparison_results,
      request, responses, Amount, amount, now>>

vars == <<jobs_dir, jobs_cache, results_dir, task, next_id, resp, seen,
          mappings_cache, ecc_ddf, ecp_ddf, result_df, comparison_results,
          request, responses, Amount, amount, now>>

\* get_result_db_path: the result file of a job is named after its id
get_result_db_path(j) == j

\* the job_data dictionary create_job builds
NewJob(j, ecc_dataset, ecp_dataset) ==
    [job_id |-> j,
     ecc_dataset |-> ecc_dataset,
     ecp_dataset |-> ecp_dataset,
     status |-> PENDING,
     started_at |-> NoTime,
     completed_at |-> NoTime,
     progress |-> 0,
     progress_message |-> "Job created, waiting to start...",
     total_rows |-> 0,
     processed_rows |-> 0,
     result_path |-> 0,
     error |-> None,
     metadata |-> << >>]

\* a run that has not been started
NoTask ==
    [pc |-> "none", mode |-> "none", exc |-> None, total_rows |-> 0,
     ecc_dataset |-> None, ecp_dataset |-> None]

\* the datasets of the docstrings: the files ECCSEP01.json and ECP_1.json of
\* data_dir; no dataset file has the empty name
EccDataset == "ECCSEP01"
EcpDataset == "ECP_1"
Datasets == {EccDataset, EcpDataset}

\* JobManager.get_job: the cached record if there is one, else the job file
get_job(m, j) ==
    IF jobs_cache[m][j] # NoJob THEN jobs_cache[m][j] ELSE jobs_dir[j]

Min(a, b) == IF a < b THEN a ELSE b
Max(a, b) == IF a > b THEN a ELSE b

Has(a, f) == f \in DOMAIN a

\* UpdateFields that stamps started_at at every LOADING_DATA update
UpdateFields_StartedEveryTime(job_data, a) ==
    LET s1 == IF Has(a, "status")
              THEN [job_data EXCEPT
                      !.status = a.status,
                      !.started_at =
                          IF a.status = LOADING_DATA
                          THEN now ELSE @,
                      !.completed_at =
                          IF ~(a.status = LOADING_DATA)
                             /\ a.status \in {COMPLETED, FAILED}
                          THEN now ELSE @]
              ELSE job_data
        s2 == IF Has(a, "progress")
              THEN [s1 EXCEPT !.progress = Min(100, Max(0, a.progress))]
              ELSE s1
        s3 == IF Has(a, "progress_message")
              THEN [s2 EXCEPT !.progress_message = a.progress_message]
              ELSE s2
        s4 == IF Has(a, "processed_rows")
              THEN [s3 EXCEPT !.processed_rows = a.processed_rows]
              ELSE s3
        s5 == IF Has(a, "total_rows")
              THEN [s4 EXCEPT !.total_rows = a.total_rows]
              ELSE s4
        s6 == IF Has(a, "result_path")
              THEN [s5 EXCEPT !.result_path = a.result_path]
              ELSE s5
        s7 == IF Has(a, "error")
              THEN [s6 EXCEPT !.error = a.error, !.status = FAILED]
              ELSE s6
        s8 == IF Has(a, "metadata")
              THEN [s7 EXCEPT !.metadata = a.metadata @@ @]
              ELSE s7
    IN s8

\* UpdateFields in which a status passed with the error is kept
UpdateFields_StatusWins(job_data, a) ==
    LET s1 == IF Has(a, "status")
              THEN [job_data EXCEPT
                      !.status = a.status,
                      !.started_at =
                          IF a.status = LOADING_DATA /\ job_data.started_at = NoTime
                          THEN now ELSE @,
                      !.completed_at =
                          IF ~(a.status = LOADING_DATA /\ job_data.started_at = NoTime)
                             /\ a.status \in {COMPLETED, FAILED}
                          THEN now ELSE @]
              ELSE job_data
        s2 == IF Has(a, "progress")
              THEN [s1 EXCEPT !.progress = Min(100, Max(0, a.progress))]
              ELSE s1
        s3 == IF Has(a, "progress_message")
              THEN [s2 EXCEPT !.progress_message = a.progress_message]
              ELSE s2
        s4 == IF Has(a, "processed_rows")
              THEN [s3 EXCEPT !.processed_rows = a.processed_rows]
              ELSE s3
        s5 == IF Has(a, "total_rows")
              THEN [s4 EXCEPT !.total_rows = a.total_rows]
              ELSE s4
        s6 == IF Has(a, "result_path")
              THEN [s5 EXCEPT !.result_path = a.result_path]
              ELSE s5
        s7 == IF Has(a, "error")
              THEN [s6 EXCEPT !.error = a.error,
                              !.status = IF Has(a, "status") THEN @ ELSE FAILED]
              ELSE s6
        s8 == IF Has(a, "metadata")
              THEN [s7 EXCEPT !.metadata = a.metadata @@ @]
              ELSE s7
    IN s8

\* JobManager.update_job, lines 144-174: the fields of job_data after the
\* call with the keyword arguments a (an absent argument is None), made at
\* the time `now`
UpdateFields(job_data, a) ==
    LET s1 == IF Has(a, "status")
              THEN [job_data EXCEPT
                      !.status = a.status,
                      !.started_at =
                          IF a.status = LOADING_DATA /\ job_data.started_at = NoTime
                          THEN now ELSE @,
                      !.completed_at =
                          IF ~(a.status = LOADING_DATA /\ job_data.started_at = NoTime)
                             /\ a.status \in {COMPLETED, FAILED}
                          THEN now ELSE @]
              ELSE job_data
        s2 == IF Has(a, "progress")
              THEN [s1 EXCEPT !.progress = Min(100, Max(0, a.progress))]
              ELSE s1
        s3 == IF Has(a, "progress_message")
              THEN [s2 EXCEPT !.progress_message = a.progress_message]
              ELSE s2
        s4 == IF Has(a, "processed_rows")
              THEN [s3 EXCEPT !.processed_rows = a.processed_rows]
              ELSE s3
        s5 == IF Has(a, "total_rows")
              THEN [s4 EXCEPT !.total_rows = a.total_rows]
              ELSE s4
        s6 == IF Has(a, "result_path")
              THEN [s5 EXCEPT !.result_path = a.result_path]
              ELSE s5
        s7 == IF Has(a, "error")
              THEN [s6 EXCEPT !.error = a.error, !.status = FAILED]
              ELSE s6
        s8 == IF Has(a, "metadata")
              THEN [s7 EXCEPT !.metadata = a.metadata @@ @]
              ELSE s7
    IN s8

\* no job, no result file, no run, no request served
InitJobs ==
    /\ jobs_dir = [j \in Jobs |-> NoJob]
    /\ jobs_cache = [m \in Managers |-> [j \in Jobs |-> NoJob]]
    /\ results_dir = [j \in Jobs |-> NoDb]
    /\ task = [j \in Jobs |-> NoTask]
    /\ next_id = 0
    /\ resp = NoResp
    /\ seen = [j \in Jobs |-> NotSeen]

\* a frame, and a parsed amount, that have not been computed
NoFrame == [computed |-> FALSE]
NoAmount == [parsed |-> FALSE]

\* no mappings, no records, no table, no query
NoMappings == [emp_map |-> << >>, wt_map |-> << >>]
NoRequest == [page_size |-> 0]

NoData ==
    /\ mappings_cache = NoMappings
    /\ ecc_ddf = << >>
    /\ ecp_ddf = << >>
    /\ result_df = NoFrame
    /\ comparison_results = << >>
    /\ request = NoRequest
    /\ responses = << >>
    /\ Amount = << >>
    /\ amount = NoAmount
    /\ now = 1

Init ==
    /\ InitJobs
    /\ NoData

\* JobManager.create_job(ecc_dataset, ecp_dataset) on manager m with the fresh
\* id j: the record is saved to disk and cached
create_job(m, j, ecc_dataset, ecp_dataset) ==
    /\ jobs_dir' = [jobs_dir EXCEPT ![j] = NewJob(j, ecc_dataset, ecp_dataset)]
    /\ jobs_cache' = [jobs_cache EXCEPT ![m][j] = NewJob(j, ecc_dataset, ecp_dataset)]

\* POST /start with the body {ecc_dataset, ecp_dataset} (two strings, not
\* validated further): create the job on the API's manager, queue
\* run_comparison
start_comparison_request(ecc_dataset, ecp_dataset) ==
    /\ next_id < MaxJobs
    /\ LET j == next_id + 1 IN
        /\ create_job("api", j, ecc_dataset, ecp_dataset)
        /\ task' = [task EXCEPT ![j] =
                        [NoTask EXCEPT !.pc = "start_cluster", !.mode = "api",
                                       !.ecc_dataset = ecc_dataset,
                                       !.ecp_dataset = ecp_dataset]]
        /\ resp' = [op |-> "start", job |-> j, status |-> "pending",
                    ecc_dataset |-> ecc_dataset, ecp_dataset |-> ecp_dataset]
    /\ next_id' = next_id + 1
    /\ UNCHANGED <<results_dir, seen>>
    /\ UNCHANGED dataVars

\* POST /start for two datasets that exist
start_comparison == start_comparison_request(EccDataset, EcpDataset)

\* compare_datasets_async called without a job_id (lines 48-49, as
\* test_async_comparison.py calls it): the comparator's manager creates the job
compare_datasets_direct ==
    /\ next_id < MaxJobs
    /\ LET j == next_id + 1 IN
        /\ create_job("cmp", j, EccDataset, EcpDataset)
        /\ task' = [task EXCEPT ![j] =
                        [NoTask EXCEPT !.pc = "start_cluster", !.mode = "direct",
                                       !.ecc_dataset = EccDataset,
                                       !.ecp_dataset = EcpDataset]]
    /\ next_id' = next_id + 1
    /\ resp' = NoResp
    /\ UNCHANGED <<results_dir, seen>>
    /\ UNCHANGED dataVars

\* ------------------------------------------------- compare_datasets_async
\* The body of the try block, cut at its update_progress calls: a stage is the
\* work since the previous call (it touches no shared state) followed by the
\* call.  The stage is named after its work.
ProgressPcs ==
    {"start_cluster", "load_mappings", "load_datasets", "parse_amounts",
     "map_ids", "aggregate_ecc", "aggregate_ecp", "merge", "compute",
     "index_summary"}

\* NextPc with the COMPLETED update moved before the INSERT
NextPc_CompletedBeforeInsert(pc) ==
    CASE pc = "start_cluster" -> "load_mappings"
      [] pc = "load_mappings" -> "load_datasets"
      [] pc = "load_datasets" -> "parse_amounts"
      [] pc = "parse_amounts" -> "map_ids"
      [] pc = "map_ids" -> "aggregate_ecc"
      [] pc = "aggregate_ecc" -> "aggregate_ecp"
      [] pc = "aggregate_ecp" -> "merge"
      [] pc = "merge" -> "compute"
      [] pc = "compute" -> "create_table"
      [] pc = "create_table" -> "index_summary"
      [] pc = "index_summary" -> "finalize"
      [] pc = "finalize" -> "insert"
      [] pc = "insert" -> "returned"

\* the order of the statements of the try block
NextPc(pc) ==
    CASE pc = "start_cluster" -> "load_mappings"
      [] pc = "load_mappings" -> "load_datasets"
      [] pc = "load_datasets" -> "parse_amounts"
      [] pc = "parse_amounts" -> "map_ids"
      [] pc = "map_ids" -> "aggregate_ecc"
      [] pc = "aggregate_ecc" -> "aggregate_ecp"
      [] pc = "aggregate_ecp" -> "merge"
      [] pc = "merge" -> "compute"
      [] pc = "compute" -> "create_table"
      [] pc = "create_table" -> "insert"
      [] pc = "insert" -> "index_summary"
      [] pc = "index_summary" -> "finalize"
      [] pc = "finalize" -> "returned"

\* StageUpdate with the stages named in the order the JobStatus enum declares
\* them (AGGREGATING before MAPPING)
StageUpdate_EnumOrder(pc) ==
    CASE pc = "start_cluster" ->
           [status |-> LOADING_DATA, progress |-> 5,
            progress_message |-> "Loading mappings..."]
      [] pc = "load_mappings" ->
           [status |-> LOADING_DATA, progress |-> 10,
            progress_message |-> "Loading datasets..."]
      [] pc = "load_datasets" ->
           [progress |-> 15, progress_message |-> "Parsing amounts..."]
      [] pc = "parse_amounts" ->
           [status |-> AGGREGATING, progress |-> 25,
            progress_message |-> "Mapping employee IDs..."]
      [] pc = "map_ids" ->
           [status |-> MAPPING, progress |-> 35,
            progress_message |-> "Aggregating ECC data..."]
      [] pc = "aggregate_ecc" ->
           [status |-> MAPPING, progress |-> 50,
            progress_message |-> "Aggregating ECP data..."]
      [] pc = "aggregate_ecp" ->
           [status |-> MERGING, progress |-> 65,
            progress_message |-> "Merging datasets..."]
      [] pc = "merge" ->
           [status |-> STORING, progress |-> 75,
            progress_message |-> "Computing results..."]
      [] pc = "compute" ->
           [status |-> STORING, progress |-> 85,
            progress_message |-> "Storing rows to DuckDB..."]
      [] pc = "index_summary" ->
           [status |-> COMPLETED, progress |-> 100,
            progress_message |-> "Comparison complete!"]

\* StageUpdate with the percentages of the two aggregation calls exchanged
StageUpdate_ProgressSwapped(pc) ==
    CASE pc = "start_cluster" ->
           [status |-> LOADING_DATA, progress |-> 5,
            progress_message |-> "Loading mappings..."]
      [] pc = "load_mappings" ->
           [status |-> LOADING_DATA, progress |-> 10,
            progress_message |-> "Loading datasets..."]
      [] pc = "load_datasets" ->
           [progress |-> 15, progress_message |-> "Parsing amounts..."]
      [] pc = "parse_amounts" ->
           [status |-> MAPPING, progress |-> 25,
            progress_message |-> "Mapping employee IDs..."]
      [] pc = "map_ids" ->
           [status |-> AGGREGATING, progress |-> 50,
            progress_message |-> "Aggregating ECC data..."]
      [] pc = "aggregate_ecc" ->
           [status |-> AGGREGATING, progress |-> 35,
            progress_message |-> "Aggregating ECP data..."]
      [] pc = "aggregate_ecp" ->
           [status |-> MERGING, progress |-> 65,
            progress_message |-> "Merging datasets..."]
      [] pc = "merge" ->
           [status |-> STORING, progress |-> 75,
            progress_message |-> "Computing results..."]
      [] pc = "compute" ->
           [status |-> STORING, progress |-> 85,
            progress_message |-> "Storing rows to DuckDB..."]
      [] pc = "index_summary" ->
           [status |-> COMPLETED, progress |-> 100,
            progress_message |-> "Comparison complete!"]

\* StageUpdate whose last call leaves the status STORING
StageUpdate_NeverCompleted(pc) ==
    CASE pc = "start_cluster" ->
           [status |-> LOADING_DATA, progress |-> 5,
            progress_message |-> "Loading mappings..."]
      [] pc = "load_mappings" ->
           [status |-> LOADING_DATA, progress |-> 10,
            progress_message |-> "Loading datasets..."]
      [] pc = "load_datasets" ->
           [progress |-> 15, progress_message |-> "Parsing amounts..."]
      [] pc = "parse_amounts" ->
           [status |-> MAPPING, progress |-> 25,
            progress_message |-> "Mapping employee IDs..."]
      [] pc = "map_ids" ->
           [status |-> AGGREGATING, progress |-> 50,
            progress_message |-> "Aggregating ECC data..."]
      [] pc = "aggregate_ecc" ->
           [status |-> AGGREGATING, progress |-> 35,
            progress_message |-> "Aggregating ECP data..."]
      [] pc = "aggregate_ecp" ->
           [status |-> MERGING, progress |-> 65,
            progress_message |-> "Merging datasets..."]
      [] pc = "merge" ->
           [status |-> STORING, progress |-> 75,
            progress_message |-> "Computing results..."]
      [] pc = "compute" ->
           [status |-> STORING, progress |-> 85,
            progress_message |-> "Storing rows to DuckDB..."]
      [] pc = "index_summary" ->
           [status |-> STORING, progress |-> 100,
            progress_message |-> "Comparison complete!"]

\* the arguments of the update_progress call that ends stage pc
\* (message, progress, status), lines 67, 74, 84, 96, 101, 111, 120, 145/153, 196
StageUpdate(pc) ==
    CASE pc = "start_cluster" ->
           [status |-> LOADING_DATA, progress |-> 5,
            progress_message |-> "Loading mappings..."]
      [] pc = "load_mappings" ->
           [status |-> LOADING_DATA, progress |-> 10,
            progress_message |-> "Loading datasets..."]
      [] pc = "load_datasets" ->
           [progress |-> 15, progress_message |-> "Parsing amounts..."]
      [] pc = "parse_amounts" ->
           [status |-> MAPPING, progress |-> 25,
            progress_message |-> "Mapping employee IDs..."]
      [] pc = "map_ids" ->
           [status |-> AGGREGATING, progress |-> 35,
            progress_message |-> "Aggregating ECC data..."]
      [] pc = "aggregate_ecc" ->
           [status |-> AGGREGATING, progress |-> 50,
            progress_message |-> "Aggregating ECP data..."]
      [] pc = "aggregate_ecp" ->
           [status |-> MERGING, progress |-> 65,
            progress_message |-> "Merging datasets..."]
      [] pc = "merge" ->
           [status |-> STORING, progress |-> 75,
            progress_message |-> "Computing results..."]
      [] pc = "compute" ->
           [status |-> STORING, progress |-> 85,
            progress_message |-> "Storing rows to DuckDB..."]
      [] pc = "index_summary" ->
           [status |-> COMPLETED, progress |-> 100,
            progress_message |-> "Comparison complete!"]

\* the keyword arguments of the update_job call of lines 199-216, for a frame
\* of n rows stored for job j
FinalUpdate(j, n) ==
    [total_rows |-> n,
     processed_rows |-> n,
     result_path |-> get_result_db_path(j),
     metadata |-> [summary |-> [total_rows |-> n]]]

\* JobManager.update_job(job_id=j, **a) on manager m, when get_job finds the
\* job: the record is changed, written to the job file and cached
update_job(m, j, a) ==
    LET job_data == UpdateFields(get_job(m, j), a) IN
    /\ jobs_dir' = [jobs_dir EXCEPT ![j] = job_data]
    /\ jobs_cache' = [jobs_cache EXCEPT ![m][j] = job_data]

\* where the exception goes when it leaves compare_datasets_async: to the
\* except clause of run_comparison, or to the caller of a direct run
Propagate(mode) == IF mode = "api" THEN "run_comparison_except" ELSE "raised"

\* An exception with message msg leaves the try block: the except clause of
\* lines 220-226 stores str(e) through update_job and re-raises; a ValueError
\* of that update_job replaces the exception.  Nothing shared is touched
\* between the raise and the clause, so they are one step.
Raise(j, msg) ==
    /\ IF get_job("cmp", j) = NoJob
       THEN /\ task' = [task EXCEPT ![j].pc = Propagate(task[j].mode),
                                    ![j].exc = ErrNotFound]
            /\ UNCHANGED <<jobs_dir, jobs_cache>>
       ELSE /\ update_job("cmp", j, [error |-> msg])
            /\ task' = [task EXCEPT ![j].pc = Propagate(task[j].mode),
                                    ![j].exc = msg]
    /\ UNCHANGED results_dir

\* load_dask_dataset (compare_dask.py lines 92-95) finds the files of both
\* datasets of the run; else it raises FileNotFoundError
DatasetsFound(j) ==
    task[j].ecc_dataset \in Datasets /\ task[j].ecp_dataset \in Datasets

\* a stage that ends with update_progress
ProgressStage(j) ==
    /\ task[j].pc \in ProgressPcs
    /\ \E raises \in BOOLEAN, n \in 0..MaxRows :
        /\ n # task[j].total_rows => task[j].pc = "compute"
        /\ \/ /\ raises
              /\ n = task[j].total_rows
              /\ Raise(j, ErrStep)
           \/ /\ ~raises
              /\ get_job("cmp", j) = NoJob
              /\ n = task[j].total_rows
              /\ Raise(j, ErrNotFound)
           \/ /\ ~raises
              /\ get_job("cmp", j) # NoJob
              /\ task[j].pc = "load_datasets" => DatasetsFound(j)
              /\ update_job("cmp", j, StageUpdate(task[j].pc))
              /\ task' = [task EXCEPT ![j].pc = NextPc(task[j].pc),
                                      ![j].total_rows = n]
              /\ UNCHANGED results_dir
    /\ resp' = NoResp
    /\ UNCHANGED <<next_id, seen>>
    /\ UNCHANGED dataVars

\* lines 156-175: duckdb.connect creates the file and CREATE TABLE the empty
\* table (no other operation looks at the file in between), then
\* INSERT ... SELECT * FROM result_df adds all the rows in one statement
StoreStage(j) ==
    /\ task[j].pc \in {"create_table", "insert"}
    /\ \E raises \in BOOLEAN :
        \/ /\ raises
           /\ Raise(j, ErrStep)
        \/ /\ ~raises
           /\ task[j].pc = "create_table"
           /\ results_dir[get_result_db_path(j)] = NoDb
           /\ results_dir' =
                [results_dir EXCEPT ![get_result_db_path(j)] =
                    [exists |-> TRUE, table |-> TRUE, rows |-> 0]]
           /\ task' = [task EXCEPT ![j].pc = NextPc(task[j].pc)]
           /\ UNCHANGED <<jobs_dir, jobs_cache>>
        \/ /\ ~raises
           /\ task[j].pc = "insert"
           /\ results_dir[get_result_db_path(j)] # NoDb
           /\ results_dir' =
                [results_dir EXCEPT ![get_result_db_path(j)].rows =
                    @ + task[j].total_rows]
           /\ task' = [task EXCEPT ![j].pc = NextPc(task[j].pc)]
           /\ UNCHANGED <<jobs_dir, jobs_cache>>
    /\ resp' = NoResp
    /\ UNCHANGED <<next_id, seen>>
    /\ UNCHANGED dataVars

\* lines 199-218: the update_job call after the COMPLETED update, and return
FinalizeStage(j) ==
    /\ task[j].pc = "finalize"
    /\ \/ /\ get_job("cmp", j) = NoJob
          /\ Raise(j, ErrNotFound)
       \/ /\ get_job("cmp", j) # NoJob
          /\ update_job("cmp", j, FinalUpdate(j, task[j].total_rows))
          /\ task' = [task EXCEPT ![j].pc = NextPc(task[j].pc)]
          /\ UNCHANGED results_dir
    /\ resp' = NoResp
    /\ UNCHANGED <<next_id, seen>>
    /\ UNCHANGED dataVars

\* f"Error: {str(e)}"
ErrorMessage(msg) ==
    IF msg = ErrNotFound THEN "Error: Job not found" ELSE "Error: step failed"

\* api_dask_async.py lines 68-77: run_comparison's except clause marks the job
\* FAILED through the API's manager; a ValueError of that update_job ends the
\* background task unhandled
run_comparison_except(j) ==
    /\ task[j].pc = "run_comparison_except"
    /\ \/ /\ get_job("api", j) = NoJob
          /\ task' = [task EXCEPT ![j].pc = "unhandled", ![j].exc = ErrNotFound]
          /\ UNCHANGED <<jobs_dir, jobs_cache>>
       \/ /\ get_job("api", j) # NoJob
          /\ update_job("api", j,
                 [status |-> FAILED,
                  progress_message |-> ErrorMessage(task[j].exc)])
          /\ task' = [task EXCEPT ![j].pc = "handled"]
    /\ resp' = NoResp
    /\ UNCHANGED <<results_dir, next_id, seen>>
    /\ UNCHANGED dataVars

\* ------------------------------------------------------------ the endpoints
\* the cache of manager m after its get_job(j): a record read from the job
\* file is cached (job_manager.py lines 106-110)
CacheAfterGet(m, j) == [jobs_cache EXCEPT ![m][j] = get_job(m, j)]

\* the response of GET /status/{job_id} for the record job (lines 117-143)
StatusResponse(j, job) ==
    IF job = NoJob
    THEN [op |-> "status", job |-> j, code |-> 404]
    ELSE [op |-> "status", job |-> j, code |-> 200,
          status |-> job.status,
          progress |-> job.progress,
          progress_message |-> job.progress_message,
          total_rows |-> job.total_rows,
          processed_rows |-> job.processed_rows,
          error |-> IF job.status = FAILED THEN job.error ELSE None]

\* The caller of job j can make its next call: a client of the API at any
\* time (the background task runs beside the request handlers), the script of
\* test_async_comparison.py only once compare_datasets_async has returned or
\* raised (lines 38-109 run in one thread)
CallerFree(j) == task[j].mode = "direct" => task[j].pc \in {"returned", "raised"}

\* GET /status/{job_id}: job_manager.get_job of the API's manager
get_job_status(j) ==
    /\ CallerFree(j)
    /\ resp' = StatusResponse(j, get_job("api", j))
    /\ jobs_cache' = CacheAfterGet("api", j)
    /\ UNCHANGED <<jobs_dir, results_dir, task, next_id, seen>>
    /\ UNCHANGED dataVars

\* GET /status/{job_id} from a client that logs the snapshots it is given
get_job_status_logged(j) ==
    /\ CallerFree(j)
    /\ resp' = StatusResponse(j, get_job("api", j))
    /\ seen' = IF resp'.code # 200 THEN seen
               ELSE IF resp'.status \in {COMPLETED, FAILED, CANCELLED}
               THEN [seen EXCEPT ![j] = NotSeen]
               ELSE [seen EXCEPT ![j] = <<resp'.progress>>]
    /\ jobs_cache' = CacheAfterGet("api", j)
    /\ UNCHANGED <<jobs_dir, results_dir, task, next_id>>
    /\ UNCHANGED dataVars

\* the defaults of query_results' page and page_size
DefaultPage == 1
PageSize == 100

\* query_results without the test of lines 255-268 for an unfinished job
query_results_NoStatusTest(j, page) ==
    LET job == get_job("cmp", j)
        db == results_dir[job.result_path]
        total_rows == db.rows
        total_pages == (total_rows + PageSize - 1) \div PageSize
        offset == (page - 1) * PageSize
    IN
    IF job = NoJob
    THEN [op |-> "results", job |-> j, code |-> 404, detail |-> ErrNotFound]
    ELSE IF job.result_path = 0 \/ db = NoDb
    THEN [op |-> "results", job |-> j, code |-> 404,
          detail |-> "Result database not found"]
    ELSE IF ~db.table
    THEN [op |-> "results", job |-> j, code |-> 500, detail |-> "Query failed"]
    ELSE [op |-> "results", job |-> j, code |-> 200,
          status |-> COMPLETED,
          results |-> Max(0, Min(PageSize, total_rows - offset)),
          page |-> page, page_size |-> PageSize,
          total_rows |-> total_rows, total_pages |-> total_pages]

\* DaskDuckDBComparator.query_results(job_id=j, page=page) as GET
\* /results/{job_id} answers it: the ValueErrors become 404, any other
\* exception 500
query_results(j, page) ==
    LET job == get_job("cmp", j)
        db == results_dir[job.result_path]
        total_rows == db.rows
        total_pages == (total_rows + PageSize - 1) \div PageSize
        offset == (page - 1) * PageSize
    IN
    IF job = NoJob
    THEN [op |-> "results", job |-> j, code |-> 404, detail |-> ErrNotFound]
    ELSE IF job.status # COMPLETED
    THEN [op |-> "results", job |-> j, code |-> 200,
          status |-> job.status,
          progress |-> job.progress,
          progress_message |-> job.progress_message,
          results |-> 0,
          page |-> page, page_size |-> PageSize,
          total_rows |-> 0, total_pages |-> 0]
    ELSE IF job.result_path = 0 \/ db = NoDb
    THEN [op |-> "results", job |-> j, code |-> 404,
          detail |-> "Result database not found"]
    ELSE IF ~db.table
    THEN [op |-> "results", job |-> j, code |-> 500, detail |-> "Query failed"]
    ELSE [op |-> "results", job |-> j, code |-> 200,
          status |-> COMPLETED,
          results |-> Max(0, Min(PageSize, total_rows - offset)),
          page |-> page, page_size |-> PageSize,
          total_rows |-> total_rows, total_pages |-> total_pages]

\* GET /results/{job_id}
get_job_results(j) ==
    /\ CallerFree(j)
    /\ resp' = query_results(j, DefaultPage)
    /\ jobs_cache' = CacheAfterGet("cmp", j)
    /\ UNCHANGED <<jobs_dir, results_dir, task, next_id, seen>>
    /\ UNCHANGED dataVars

\* JobManager.delete_job on manager m: the result file the record names is
\* removed, then the job file and the cache entry; TRUE iff the job file existed
delete_job(m, j) ==
    LET job_data == get_job(m, j) IN
    /\ results_dir' =
         IF job_data # NoJob /\ job_data.result_path # 0
         THEN [results_dir EXCEPT ![job_data.result_path] = NoDb]
         ELSE results_dir
    /\ jobs_dir' = [jobs_dir EXCEPT ![j] = NoJob]
    /\ jobs_cache' =
         IF jobs_dir[j] # NoJob
         THEN [jobs_cache EXCEPT ![m][j] = NoJob]
         ELSE CacheAfterGet(m, j)

\* DELETE /jobs/{job_id}: job_manager.delete_job of the API's manager
delete_job_endpoint(j) ==
    /\ CallerFree(j)
    /\ delete_job("api", j)
    /\ resp' = [op |-> "delete", job |-> j,
                code |-> IF jobs_dir[j] # NoJob THEN 200 ELSE 404]
    /\ UNCHANGED <<task, next_id, seen>>
    /\ UNCHANGED dataVars

compare_datasets_async(j) ==
    \/ ProgressStage(j)
    \/ StoreStage(j)
    \/ FinalizeStage(j)

Next ==
    \/ \E j \in Jobs : compare_datasets_async(j)
    \/ \E j \in Jobs : run_comparison_except(j)
    \/ \E j \in Jobs : get_job_status(j)
    \/ \E j \in Jobs : get_job_results(j)
    \/ \E j \in Jobs : delete_job_endpoint(j)
    \/ start_comparison

Spec == Init /\ [][Next]_vars

\* test_async_comparison.py: the script runs the comparison itself, then reads,
\* queries and deletes the job through a JobManager of its own
NextScript ==
    \/ compare_datasets_direct
    \/ \E j \in Jobs : compare_datasets_async(j)
    \/ \E j \in Jobs : get_job_status(j)
    \/ \E j \in Jobs : get_job_results(j)
    \/ \E j \in Jobs : delete_job_endpoint(j)

SpecScript == Init /\ [][NextScript]_vars

\* the API with clients that poll the status, log what they get, and delete
NextPolls ==
    \/ start_comparison
    \/ \E j \in Jobs : compare_datasets_async(j)
    \/ \E j \in Jobs : run_comparison_except(j)
    \/ \E j \in Jobs : get_job_status_logged(j)
    \/ \E j \in Jobs : delete_job_endpoint(j)

SpecPolls == Init /\ [][NextPolls]_vars

\* the strings a POST /start body can hold for a dataset: StartComparisonRequest
\* declares both fields as str, so the empty string is accepted
RequestNames == {"", EccDataset, EcpDataset}

\* POST /start with any body
start_comparison_any ==
    \E ecc_dataset \in RequestNames \ {EcpDataset},
       ecp_dataset \in RequestNames \ {EccDataset} :
        start_comparison_request(ecc_dataset, ecp_dataset)

\* the API when the bodies of POST /start are arbitrary
NextStart ==
    \/ start_comparison_any
    \/ \E j \in Jobs : compare_datasets_async(j)
    \/ \E j \in Jobs : run_comparison_except(j)
    \/ \E j \in Jobs : get_job_status(j)
    \/ \E j \in Jobs : get_job_results(j)

SpecStart == Init /\ [][NextStart]_vars

\* a caller marks job j CANCELLED: update_job(job_id, status=JobStatus.CANCELLED)
\* on manager m, for a job m finds in a non-terminal state (the only way the
\* status can be set; no endpoint and no method does it)
mark_cancelled(m, j) ==
    /\ get_job(m, j) # NoJob
    /\ get_job(m, j).status \notin {COMPLETED, FAILED, CANCELLED}
    /\ update_job(m, j, [status |-> CANCELLED])
    /\ resp' = NoResp
    /\ UNCHANGED <<results_dir, task, next_id, seen>>
    /\ UNCHANGED dataVars

\* the API with a caller that cancels jobs
NextCancel ==
    \/ start_comparison
    \/ \E j \in Jobs : compare_datasets_async(j)
    \/ \E j \in Jobs : run_comparison_except(j)
    \/ \E j \in Jobs : get_job_status(j)
    \/ \E m \in Managers, j \in Jobs : mark_cancelled(m, j)

SpecCancel == Init /\ [][NextCancel]_vars

\* ---------------------------------------------------------- the data path
\* identifiers of the ECP (target) system, identifiers of the ECC (source)
\* system, wage type codes, and the categories of wagetype_classification.xlsx
EcpIds == {"p1", "p2"}
EccIds == {"e1", "e2"}
WTs == {"w1", "w2"}
Uncategorized == "Uncategorized"

\* a key of the merged frame: (ecp_id, WT)
Keys == EcpIds \X WTs
KeySeq == <<<<"p1", "w1">>, <<"p1", "w2">>, <<"p2", "w1">>, <<"p2", "w2">>>>

\* Difference with the two sides exchanged
Difference_SourceMinusTarget(row) == row.ecc_amount - row.ecp_amount

\* merged['ecp_amount'] - merged['ecc_amount'] (line 126)
Difference(row) == row.ecp_amount - row.ecc_amount

\* determine_status (lines 135-143)
determine_status(row) ==
    IF row.ecc_amount > 0 /\ row.ecp_amount > 0 THEN "Matched"
    ELSE IF row.ecc_amount > 0 THEN "ECC Only"
    ELSE "ECP Only"

\* merged['wage_type'].map(wt_map).fillna('Uncategorized') (line 132)
WageCategory(wt_map, wage_type) ==
    IF wage_type \in DOMAIN wt_map THEN wt_map[wage_type] ELSE Uncategorized

\* lines 123-143: the row of the merged frame for key k with the two sums
\* (a missing side already filled with 0), in the column order of line 172
MergedRow(k, ecc_amount, ecp_amount, wt_map) ==
    LET merged == [ecp_id |-> k[1], WT |-> k[2],
                   ecc_amount |-> ecc_amount, ecp_amount |-> ecp_amount]
    IN [ecp_id |-> merged.ecp_id,
        wage_type |-> merged.WT,
        wage_category |-> WageCategory(wt_map, merged.WT),
        ecc_amount |-> merged.ecc_amount,
        ecp_amount |-> merged.ecp_amount,
        difference |-> Difference(merged),
        status |-> determine_status(merged)]

\* the order of VARCHAR values (binary collation)
Collation ==
    <<"Deductions", "ECC Only", "ECP Only", "Earnings", "Matched",
      "Uncategorized", "e1", "e2", "p1", "p2", "w1", "w2">>

\* the dictionaries wt_map the classification file can give
WtMaps ==
    {[w \in {"w1", "w2"} |-> "Earnings"],
     [w \in {"w1"} |-> "Earnings"],
     [w \in {"w1", "w2"} |-> IF w = "w1" THEN "Deductions" ELSE "Earnings"]}

\* ------------------------------------------------- mapping and aggregation
\* largest number of records of a dataset, and the number of records per
\* partition (10000 in load_dask_dataset, scaled to the datasets of the model)
MaxRecs == 2
RowsPerPartition == 1

\* the value pandas gives a missing entry
NaN == "NaN"

\* MappedEcp that keeps the id of an ECC record that has no mapping
MappedEcp_KeepUnmapped(emp_map, pers_no) ==
    IF pers_no \in DOMAIN emp_map THEN emp_map[pers_no] ELSE pers_no

\* ecc_ddf['Pers.No.'].map(emp_map) (line 99): the ECP id of an ECC id, NaN
\* for an id that is not a key of emp_map
MappedEcp(emp_map, pers_no) ==
    IF pers_no \in DOMAIN emp_map THEN emp_map[pers_no] ELSE NaN

\* line 99: the frame with the column mapped_ecp
AssignMapped(ddf, emp_map) ==
    [i \in 1..Len(ddf) |->
        [PersNo |-> ddf[i].PersNo, WT |-> ddf[i].WT, amount |-> ddf[i].amount,
         mapped_ecp |-> MappedEcp(emp_map, ddf[i].PersNo)]]

\* .dropna(subset=['mapped_ecp']) (line 105)
DropNa(ddf) == SelectSeq(ddf, LAMBDA r : r.mapped_ecp # NaN)

\* dd.from_pandas(pdf, npartitions=max(1, len(records) // 10000)): the number
\* of partitions of a frame of n records and the records of partition p
NPartitions(n) == Max(1, n \div RowsPerPartition)

PartitionOf(ddf, p) ==
    LET n == Len(ddf)
        size == (n + NPartitions(n) - 1) \div NPartitions(n)
    IN SubSeq(ddf, (p - 1) * size + 1, Min(p * size, n))

\* the sum of the amounts of the records of one partition whose key
\* (id column, WT) is k
RECURSIVE PartitionSum(_, _, _)
PartitionSum(part, idcol, k) ==
    IF part = << >> THEN 0
    ELSE (IF <<Head(part)[idcol], Head(part).WT>> = k
          THEN Head(part).amount ELSE 0)
         + PartitionSum(Tail(part), idcol, k)

\* the sums of the partitions 1..p added up
RECURSIVE CombineSums(_, _, _, _)
CombineSums(ddf, idcol, k, p) ==
    IF p = 0 THEN 0
    ELSE CombineSums(ddf, idcol, k, p - 1)
         + PartitionSum(PartitionOf(ddf, p), idcol, k)

\* .groupby([idcol, 'WT'])['amount'].sum(): one sum per key that occurs,
\* each computed per partition and then added up
GroupBySum(ddf, idcol) ==
    [k \in {<<ddf[i][idcol], ddf[i].WT>> : i \in 1..Len(ddf)} |->
        CombineSums(ddf, idcol, k, NPartitions(Len(ddf)))]

\* the keys of an inner join of the two aggregations
MergeKeys_Inner(ecc_agg, ecp_agg) == DOMAIN ecc_agg \cap DOMAIN ecp_agg

\* ecc_agg.merge(ecp_agg, on=['ecp_id', 'WT'], how='outer'): the keys
MergeKeys(ecc_agg, ecp_agg) == DOMAIN ecc_agg \cup DOMAIN ecp_agg

\* key a comes before key b: ids first, then wage types
KeyBefore(a, b) ==
    LET rank(x) == CHOOSE i \in 1..Len(Collation) : Collation[i] = x IN
    \/ rank(a[1]) < rank(b[1])
    \/ a[1] = b[1] /\ rank(a[2]) < rank(b[2])

\* the keys of set S in order
RECURSIVE SortedKeys(_)
SortedKeys(S) ==
    IF S = {} THEN << >>
    ELSE LET k == CHOOSE k \in S : \A o \in S \ {k} : KeyBefore(k, o)
         IN <<k>> \o SortedKeys(S \ {k})

\* lines 99-148: merged.compute() for the two datasets (amounts parsed, ids
\* and wage types stripped) and the two mapping dictionaries
Merged(ecc, ecp, emp_map, wt_map) ==
    LET ecc_agg == GroupBySum(DropNa(AssignMapped(ecc, emp_map)), "mapped_ecp")
        ecp_agg == GroupBySum(ecp, "PersNo")
        ks == SortedKeys(MergeKeys(ecc_agg, ecp_agg))
    IN [i \in 1..Len(ks) |->
          MergedRow(ks[i],
                    IF ks[i] \in DOMAIN ecc_agg THEN ecc_agg[ks[i]] ELSE 0,
                    IF ks[i] \in DOMAIN ecp_agg THEN ecp_agg[ks[i]] ELSE 0,
                    wt_map)]

\* the parsed amounts of the records
Amounts == {-1, 1}

\* the dictionaries emp_map the mapping file can give
EmpMaps ==
    {[e \in {"e1", "e2"} |-> "p1"],
     [e \in {"e1", "e2"} |-> IF e = "e1" THEN "p1" ELSE "p2"],
     [e \in {"e1"} |-> "p1"]}

\* the frames of 1..MaxRecs records with ids from ids (a dataset without
\* records has no column 'Amount' and the pipeline fails at line 87)
Frames(ids) ==
    UNION {[1..n -> [PersNo : ids, WT : WTs, amount : Amounts]] : n \in 1..MaxRecs}

\* the two datasets and the two mappings, loaded and parsed
InitAggregate ==
    /\ InitJobs
    /\ mappings_cache \in [emp_map : EmpMaps, wt_map : {[w \in {"w1"} |-> "Earnings"]}]
    /\ ecc_ddf \in Frames(EccIds)
    /\ ecp_ddf \in Frames(EcpIds)
    /\ result_df = NoFrame
    /\ comparison_results = << >>
    /\ request = NoRequest
    /\ responses = << >>
    /\ Amount = << >>
    /\ amount = NoAmount
    /\ now = 1

\* lines 99-148: result_df = merged.compute()
compute_result ==
    /\ result_df = NoFrame
    /\ result_df' =
         [computed |-> TRUE,
          rows |-> Merged(ecc_ddf, ecp_ddf,
                          mappings_cache.emp_map, mappings_cache.wt_map)]
    /\ UNCHANGED <<mappings_cache, ecc_ddf, ecp_ddf, comparison_results,
                   request, responses, Amount, amount, now>>
    /\ UNCHANGED jobVars

NextAggregate == compute_result

SpecAggregate == InitAggregate /\ [][NextAggregate]_vars

\* ------------------------------------------------------------ query_results
\* number of query_results calls a client makes, largest page it asks for,
\* and largest number of rows of a stored table
MaxCalls == 2
MaxPage == 3
MaxTableRows == 3

\* the sort specification as a list of fields, each a column name and the
\* direction word written after it ("" when there is none)
DefaultSort ==
    <<[col |-> "ecp_id", dir |-> ""], [col |-> "wage_category", dir |-> ""],
      [col |-> "ecc_amount", dir |-> "DESC"], [col |-> "ecp_amount", dir |-> "DESC"]>>
CategoryAmountSort ==
    <<[col |-> "wage_category", dir |-> "ASC"], [col |-> "ecc_amount", dir |-> "desc"]>>
KeySort ==
    <<[col |-> "ecp_id", dir |-> ""], [col |-> "wage_type", dir |-> "DESC"]>>
SortSpecs == {DefaultSort, CategoryAmountSort, KeySort}

\* str.upper() of a direction word
Upper(dir) ==
    CASE dir \in {"DESC", "desc"} -> "DESC"
      [] dir \in {"ASC", "asc"} -> "ASC"
      [] OTHER -> dir

\* _build_order_clause: the terms of ORDER BY, in order; no clause for an
\* empty specification
build_order_clause(sort_by) ==
    [i \in 1..Len(sort_by) |->
        IF Upper(sort_by[i].dir) = "DESC"
        THEN [col |-> sort_by[i].col, desc |-> TRUE]
        ELSE [col |-> sort_by[i].col, desc |-> FALSE]]

\* the value of column col of row r as a number that orders it
SortKey(r, col) ==
    IF col \in {"ecc_amount", "ecp_amount", "difference"}
    THEN r[col]
    ELSE CHOOSE i \in 1..Len(Collation) : Collation[i] = r[col]

\* ORDER BY order puts row a strictly before row b
RECURSIVE Before(_, _, _)
Before(a, b, order) ==
    IF order = << >> THEN FALSE
    ELSE LET t == Head(order)
             ka == SortKey(a, t.col)
             kb == SortKey(b, t.col)
         IN IF ka = kb THEN Before(a, b, Tail(order))
            ELSE IF t.desc THEN ka > kb ELSE ka < kb

\* lines 279-281 and 306: the rows the WHERE clause keeps, in storage order
Where(table, filter_status) ==
    IF filter_status = None
    THEN table
    ELSE SelectSeq(table, LAMBDA r : r.status = filter_status)

Perms(n) ==
    {f \in [1..n -> 1..n] : \A i, k \in 1..n : i # k => f[i] # f[k]}

\* SELECT ... ORDER BY: the orders in which the database may return rows.
\* Rows that are equal on every term of the ORDER BY clause come in an order
\* the database chooses anew for each statement.
OrderedRows(rows, order) ==
    {[i \in 1..Len(rows) |-> rows[f[i]]] :
        f \in {g \in Perms(Len(rows)) :
                 \A i \in 1..(Len(rows) - 1) :
                     ~Before(rows[g[i + 1]], rows[g[i]], order)}}

\* Offset for pages counted from 0
Offset_ZeroBased(page, page_size) == page * page_size

\* line 293
Offset(page, page_size) == (page - 1) * page_size

\* lines 286-328: the response for a COMPLETED job whose table is `table`,
\* when the SELECT returns the filtered rows in the order `ordered`
query_results_rows(table, page, page_size, filter_status, ordered) ==
    LET total_rows == Len(Where(table, filter_status))
        total_pages == (total_rows + page_size - 1) \div page_size
        offset == Offset(page, page_size)
    IN [status |-> "completed",
        results |-> SubSeq(ordered, offset + 1, Min(offset + page_size, total_rows)),
        page |-> page,
        page_size |-> page_size,
        total_rows |-> total_rows,
        total_pages |-> total_pages,
        has_next |-> page < total_pages,
        has_prev |-> page > 1]

\* the pairs (ecc_amount, ecp_amount) of the stored rows
AmountPairs == {<<1, 1>>, <<1, 0>>, <<0, 1>>}

\* the table the pipeline stores for the keys `present` with the sums a[k]:
\* one row per key
TableOf(present, a, wt_map) ==
    LET ks == SelectSeq(KeySeq, LAMBDA k : k \in present)
    IN [i \in 1..Len(ks) |-> MergedRow(ks[i], a[ks[i]][1], a[ks[i]][2], wt_map)]

PageSizes == {1, 2}
FilterValues == {None, "Matched"}

\* a completed job's table and the parameters a client pages with
InitQuery ==
    /\ InitJobs
    /\ mappings_cache \in {[emp_map |-> << >>, wt_map |-> m] : m \in WtMaps}
    /\ \E present \in SUBSET Keys, a \in [Keys -> AmountPairs] :
          /\ Cardinality(present) <= MaxTableRows
          /\ comparison_results = TableOf(present, a, mappings_cache.wt_map)
    /\ request \in [page_size : PageSizes, sort_by : SortSpecs,
                    filter_status : FilterValues]
    /\ responses = << >>
    /\ ecc_ddf = << >>
    /\ ecp_ddf = << >>
    /\ result_df = NoFrame
    /\ Amount = << >>
    /\ amount = NoAmount
    /\ now = 1

\* one call of query_results(job_id, page, page_size, sort_by, filter_status)
query_page ==
    /\ Len(responses) < MaxCalls
    /\ \E page \in 1..MaxPage :
       \E ordered \in OrderedRows(Where(comparison_results, request.filter_status),
                                  build_order_clause(request.sort_by)) :
          responses' = Append(responses,
              query_results_rows(comparison_results, page, request.page_size,
                                 request.filter_status, ordered))
    /\ UNCHANGED <<mappings_cache, ecc_ddf, ecp_ddf, result_df,
                   comparison_results, request, Amount, amount, now>>
    /\ UNCHANGED jobVars

NextQuery == query_page

SpecQuery == InitQuery /\ [][NextQuery]_vars

\* -------------------------------------------------- normalize_amount_column
\* longest value of the column 'Amount', in characters
MaxLen == 4

\* the characters of the values: digits, the thousands separator, the
\* parentheses and the minus sign of the accounting formats, the decimal
\* point, and a letter
Digits == {"0", "2"}
Chars == Digits \cup {",", "(", ")", "-", ".", "x"}

\* str.replace(old, new, regex=False) for a character old and a string new
RECURSIVE StrReplace(_, _, _)
StrReplace(str, old, new) ==
    IF str = << >> THEN << >>
    ELSE (IF Head(str) = old THEN new ELSE <<Head(str)>>)
         \o StrReplace(Tail(str), old, new)

DigitValue(c) == IF c = "2" THEN 2 ELSE 0

\* the number a string of digits denotes
RECURSIVE DigitsValue(_)
DigitsValue(str) ==
    IF str = << >> THEN 0
    ELSE DigitsValue(SubSeq(str, 1, Len(str) - 1)) * 10 + DigitValue(str[Len(str)])

\* to_numeric(s, errors='coerce') for one string: the float it denotes (an
\* optional leading minus sign, digits, at most one decimal point, at least
\* one digit), in units of 10^-MaxLen; anything else is coerced to NaN
to_numeric(str) ==
    LET neg == str # << >> /\ Head(str) = "-"
        u == IF neg THEN Tail(str) ELSE str
        dots == {i \in 1..Len(u) : u[i] = "."}
        d == CHOOSE i \in dots : TRUE
        ip == IF dots = {} THEN u ELSE SubSeq(u, 1, d - 1)
        fp == IF dots = {} THEN << >> ELSE SubSeq(u, d + 1, Len(u))
        digits(x) == \A i \in 1..Len(x) : x[i] \in Digits
    IN IF /\ Cardinality(dots) <= 1
          /\ digits(ip)
          /\ digits(fp)
          /\ Len(ip) + Len(fp) >= 1
       THEN [ok |-> TRUE,
             value |-> (IF neg THEN -1 ELSE 1)
                       * (DigitsValue(ip) * 10^MaxLen
                          + DigitsValue(fp) * 10^(MaxLen - Len(fp)))]
       ELSE [ok |-> FALSE]

\* .fillna(0.0)
fillna(v) == IF v.ok THEN v.value ELSE 0

\* normalize_amount_column for one value of the column (compare_dask.py lines
\* 72-79): commas removed, '(' replaced by '-', ')' removed, to_numeric,
\* fillna(0.0)
NormalizeAmount(str) ==
    LET s1 == StrReplace(str, ",", << >>)
        s2 == StrReplace(s1, "(", <<"-">>)
        s3 == StrReplace(s2, ")", << >>)
    IN fillna(to_numeric(s3))

\* the strings of up to MaxLen characters
Strings == UNION {[1..n -> Chars] : n \in 0..MaxLen}

\* a value of the column
InitAmount ==
    /\ InitJobs
    /\ Amount \in Strings
    /\ amount = NoAmount
    /\ now = 1
    /\ mappings_cache = NoMappings
    /\ ecc_ddf = << >>
    /\ ecp_ddf = << >>
    /\ result_df = NoFrame
    /\ comparison_results = << >>
    /\ request = NoRequest
    /\ responses = << >>

\* lines 87-88: the column is parsed
normalize_amount_column ==
    /\ amount = NoAmount
    /\ amount' = [parsed |-> TRUE, value |-> NormalizeAmount(Amount)]
    /\ UNCHANGED <<mappings_cache, ecc_ddf, ecp_ddf, result_df,
                   comparison_results, request, responses, Amount, now>>
    /\ UNCHANGED jobVars

NextAmount == normalize_amount_column

SpecAmount == InitAmount /\ [][NextAmount]_vars

\* the API while nobody deletes jobs
NextLive ==
    \/ start_comparison
    \/ \E j \in Jobs : compare_datasets_async(j)
    \/ \E j \in Jobs : run_comparison_except(j)
    \/ \E j \in Jobs : get_job_status(j)
    \/ \E j \in Jobs : get_job_results(j)

\* BackgroundTasks runs every task it was given (api_dask_async.py line 80),
\* and each step of the task returns or raises: a run that can take a step
\* takes one, and so does the except clause of run_comparison
Fairness ==
    \A j \in Jobs :
        /\ WF_vars(compare_datasets_async(j))
        /\ WF_vars(run_comparison_except(j))

SpecLive == Init /\ [][NextLive]_vars /\ Fairness

\* ------------------------------------------------- update_job on its own
\* last tick of the clock
MaxClock == 3

\* the keyword argument f=v of a call; an argument that is None is absent
Arg(f, v) == IF v = None THEN << >> ELSE [x \in {f} |-> v]

\* the keyword arguments of the update_job calls a caller makes: any status or
\* none, an error or none, a progress message or none
UpdateCalls ==
    {Arg("status", s) @@ Arg("error", e) @@ Arg("progress_message", m) :
        s \in JobStatus \cup {None},
        e \in {None, ErrStep},
        m \in {None, "message"}}

\* JobManager.create_job called on the comparator's manager
create_job_call ==
    /\ next_id < MaxJobs
    /\ create_job("cmp", next_id + 1, EccDataset, EcpDataset)
    /\ next_id' = next_id + 1
    /\ resp' = [op |-> "create_job", job |-> next_id + 1]
    /\ UNCHANGED <<results_dir, task, seen>>
    /\ UNCHANGED dataVars

\* JobManager.update_job(job_id=j, **a) called on the comparator's manager for a
\* job it finds (for a job it does not find the call raises ValueError at
\* line 142 and changes nothing); resp records the call that was made
update_job_call(j, a) ==
    /\ get_job("cmp", j) # NoJob
    /\ update_job("cmp", j, a)
    /\ resp' = [op |-> "update_job", job |-> j, call |-> a]
    /\ UNCHANGED <<results_dir, task, next_id, seen>>
    /\ UNCHANGED dataVars

\* time passes between two calls
tick ==
    /\ now < MaxClock
    /\ now' = now + 1
    /\ resp' = NoResp
    /\ UNCHANGED <<jobs_dir, jobs_cache, results_dir, task, next_id, seen>>
    /\ UNCHANGED <<mappings_cache, ecc_ddf, ecp_ddf, result_df,
                   comparison_results, request, responses, Amount, amount>>

\* a JobManager under the calls of an arbitrary caller
NextUpdate ==
    \/ create_job_call
    \/ \E j \in Jobs, a \in UpdateCalls : update_job_call(j, a)
    \/ tick

SpecUpdate == Init /\ [][NextUpdate]_vars

\* ------------------------------------- the pipeline with the rows it stores
\* largest number of records of a dataset whose comparison is stored, and
\* largest number of compare_datasets_async calls made for one job id
MaxStoreRecs == 1
MaxRuns == 2

\* the sum of column col of the rows of a table (0 for no rows: `or 0`)
RECURSIVE SumColumn(_, _)
SumColumn(table, col) ==
    IF table = << >> THEN 0
    ELSE Head(table)[col] + SumColumn(Tail(table), col)

\* SUM(CASE WHEN status = s THEN 1 ELSE 0 END)
CountStatus(table, s) == Len(SelectSeq(table, LAMBDA r : r.status = s))

\* summary_stats with the rows counted before the INSERT
summary_stats_OfEmptyTable(table) ==
    [total_rows |-> 0,
     total_ecc_amount |-> 0,
     total_ecp_amount |-> 0,
     matched_count |-> 0,
     ecc_only_count |-> 0,
     ecp_only_count |-> 0]

\* lines 183-192 and 206-211: the summary of the stored table
summary_stats(table) ==
    [total_rows |-> Len(table),
     total_ecc_amount |-> SumColumn(table, "ecc_amount"),
     total_ecp_amount |-> SumColumn(table, "ecp_amount"),
     matched_count |-> CountStatus(table, "Matched"),
     ecc_only_count |-> CountStatus(table, "ECC Only"),
     ecp_only_count |-> CountStatus(table, "ECP Only")]

\* the keyword arguments of the update_job call of lines 199-216
FinalUpdateWith(j, total_rows, stats, emp_map, wt_map) ==
    [total_rows |-> total_rows,
     processed_rows |-> total_rows,
     result_path |-> get_result_db_path(j),
     metadata |-> [summary |-> stats,
                   employee_mapping_count |-> Cardinality(DOMAIN emp_map),
                   wage_type_mapping_count |-> Cardinality(DOMAIN wt_map)]]

\* create_table that replaces a table that exists
create_table_OrReplace(db) ==
    [ok |-> TRUE,
     db |-> [exists |-> TRUE, table |-> TRUE, rows |-> 0,
             comparison_results |-> << >>]]

\* lines 156-169: duckdb.connect opens the file db (creating it when there is
\* none) and CREATE TABLE comparison_results creates the empty table; the
\* statement fails when the file has the table already
create_table(db) ==
    IF db = NoDb
    THEN [ok |-> TRUE,
          db |-> [exists |-> TRUE, table |-> TRUE, rows |-> 0,
                  comparison_results |-> << >>]]
    ELSE [ok |-> FALSE]

\* the number of compare_datasets_async calls made for job j
Runs(j) == IF Has(task[j], "runs") THEN task[j].runs ELSE 1

\* the stages up to the merge: none of them looks at the records
EarlyStage(j) ==
    /\ task[j].pc \in ProgressPcs \ {"compute", "index_summary"}
    /\ ProgressStage(j)

\* lines 148-153: result_df = merged.compute(), total_rows = len(result_df),
\* update_progress
ComputeStage(j) ==
    /\ task[j].pc = "compute"
    /\ LET rows == Merged(ecc_ddf, ecp_ddf,
                          mappings_cache.emp_map, mappings_cache.wt_map)
       IN \/ /\ Raise(j, ErrStep)
             /\ UNCHANGED result_df
          \/ /\ get_job("cmp", j) = NoJob
             /\ Raise(j, ErrNotFound)
             /\ result_df' = [computed |-> TRUE, rows |-> rows]
          \/ /\ get_job("cmp", j) # NoJob
             /\ result_df' = [computed |-> TRUE, rows |-> rows]
             /\ update_job("cmp", j, StageUpdate(task[j].pc))
             /\ task' = [task EXCEPT ![j].pc = NextPc(task[j].pc),
                                     ![j].total_rows = Len(rows)]
             /\ UNCHANGED results_dir
    /\ resp' = NoResp
    /\ UNCHANGED <<next_id, seen>>
    /\ UNCHANGED <<mappings_cache, ecc_ddf, ecp_ddf, comparison_results,
                   request, responses, Amount, amount, now>>

\* lines 156-169
CreateTableStage(j) ==
    /\ task[j].pc = "create_table"
    /\ LET made == create_table(results_dir[get_result_db_path(j)])
       IN \/ Raise(j, ErrStep)
          \/ /\ made.ok
             /\ results_dir' =
                  [results_dir EXCEPT ![get_result_db_path(j)] = made.db]
             /\ task' = [task EXCEPT ![j].pc = NextPc(task[j].pc)]
             /\ UNCHANGED <<jobs_dir, jobs_cache>>
    /\ resp' = NoResp
    /\ UNCHANGED <<next_id, seen>>
    /\ UNCHANGED dataVars

\* lines 172-175: INSERT INTO comparison_results SELECT * FROM result_df
InsertStage(j) ==
    /\ task[j].pc = "insert"
    /\ \/ Raise(j, ErrStep)
       \/ /\ results_dir[get_result_db_path(j)] # NoDb
          /\ results_dir' =
               [results_dir EXCEPT
                  ![get_result_db_path(j)].rows = @ + Len(result_df.rows),
                  ![get_result_db_path(j)].comparison_results =
                      @ \o result_df.rows]
          /\ task' = [task EXCEPT ![j].pc = NextPc(task[j].pc)]
          /\ UNCHANGED <<jobs_dir, jobs_cache>>
    /\ resp' = NoResp
    /\ UNCHANGED <<next_id, seen>>
    /\ UNCHANGED dataVars

\* lines 177-196: the indexes, the summary query, con.close() and the
\* COMPLETED update; the run keeps summary_stats for its last call
SummaryStage(j) ==
    /\ task[j].pc = "index_summary"
    /\ \/ Raise(j, ErrStep)
       \/ /\ get_job("cmp", j) = NoJob
          /\ Raise(j, ErrNotFound)
       \/ /\ get_job("cmp", j) # NoJob
          /\ results_dir[get_result_db_path(j)] # NoDb
          /\ update_job("cmp", j, StageUpdate(task[j].pc))
          /\ task' =
               [task EXCEPT ![j] =
                  [summary_stats |->
                      summary_stats(results_dir[get_result_db_path(j)]
                                        .comparison_results)]
                  @@ [@ EXCEPT !.pc = NextPc(task[j].pc)]]
          /\ UNCHANGED results_dir
    /\ resp' = NoResp
    /\ UNCHANGED <<next_id, seen>>
    /\ UNCHANGED dataVars

\* lines 199-218: the update_job call with the row counts, the result path
\* and the summary, and return
FinalizeSummary(j) ==
    /\ task[j].pc = "finalize"
    /\ \/ /\ get_job("cmp", j) = NoJob
          /\ Raise(j, ErrNotFound)
       \/ /\ get_job("cmp", j) # NoJob
          /\ update_job("cmp", j,
                 FinalUpdateWith(j, task[j].total_rows, task[j].summary_stats,
                                 mappings_cache.emp_map, mappings_cache.wt_map))
          /\ task' = [task EXCEPT ![j].pc = NextPc(task[j].pc)]
          /\ UNCHANGED results_dir
    /\ resp' = NoResp
    /\ UNCHANGED <<next_id, seen>>
    /\ UNCHANGED dataVars

\* compare_datasets_async(ecc_dataset, ecp_dataset, job_id=j) called once more,
\* by a caller that waits for it, for a job whose previous run has ended
compare_datasets_again(j) ==
    /\ task[j].pc \in {"returned", "raised", "handled", "unhandled"}
    /\ Runs(j) < MaxRuns
    /\ task' = [task EXCEPT ![j] =
                   [runs |-> Runs(j) + 1]
                   @@ [@ EXCEPT !.pc = "start_cluster", !.mode = "direct",
                                !.exc = None, !.total_rows = 0]]
    /\ resp' = NoResp
    /\ UNCHANGED <<jobs_dir, jobs_cache, results_dir, next_id, seen>>
    /\ UNCHANGED dataVars

\* the datasets whose comparison is stored
StoreFrames(ids) == {f \in Frames(ids) : Len(f) <= MaxStoreRecs}

\* the files of the two datasets and of the mappings; no job
InitStore ==
    /\ InitJobs
    /\ mappings_cache \in [emp_map : EmpMaps, wt_map : {[w \in {"w1"} |-> "Earnings"]}]
    /\ ecc_ddf \in StoreFrames(EccIds)
    /\ ecp_ddf \in StoreFrames(EcpIds)
    /\ result_df = NoFrame
    /\ comparison_results = << >>
    /\ request = NoRequest
    /\ responses = << >>
    /\ Amount = << >>
    /\ amount = NoAmount
    /\ now = 1

\* the API and a caller of the comparator, with the rows of the result store
NextStore ==
    \/ start_comparison
    \/ \E j \in Jobs : EarlyStage(j)
    \/ \E j \in Jobs : ComputeStage(j)
    \/ \E j \in Jobs : CreateTableStage(j)
    \/ \E j \in Jobs : InsertStage(j)
    \/ \E j \in Jobs : SummaryStage(j)
    \/ \E j \in Jobs : FinalizeSummary(j)
    \/ \E j \in Jobs : run_comparison_except(j)
    \/ \E j \in Jobs : compare_datasets_again(j)
    \/ \E j \in Jobs : get_job_results(j)
    \/ \E j \in Jobs : delete_job_endpoint(j)

SpecStore == InitStore /\ [][NextStore]_vars

\* ------------------------------------------------------------- properties
Terminal == {COMPLETED, FAILED, CANCELLED}

\* the stages in the order of the state machine
Stages == <<PENDING, LOADING_DATA, MAPPING, AGGREGATING, MERGING, STORING, COMPLETED>>

StageSet == {Stages[i] : i \in 1..Len(Stages)}

StageRank(s) == CHOOSE i \in 1..Len(Stages) : Stages[i] = s

\* the positions of a run inside the try block of compare_datasets_async
RunPcs == ProgressPcs \cup {"create_table", "insert", "finalize"}

\* this step is a step of job j's run of compare_datasets_async
RunStep(j) == task[j].pc \in RunPcs /\ task'[j] # task[j]

\* the job's ended run left through an exception
RunFailed(j) == task[j].pc \in {"handled", "unhandled", "raised"}

\* this step served DELETE /jobs/j, GET /status/j, GET /results/j
DeleteStep(j) == resp'.op = "delete" /\ resp'.job = j
StatusCall(j) == resp'.op = "status" /\ resp'.job = j
ResultsCall(j) == resp'.op = "results" /\ resp'.job = j

\* from status old a run may write status new
MayWrite(old, new) ==
    \/ /\ old \in StageSet
       /\ new \in StageSet
       /\ StageRank(new) >= StageRank(old)
       /\ new = COMPLETED => old \in {STORING, COMPLETED}
    \/ /\ new = FAILED
       /\ old \notin Terminal

\* C1: every record a step of a run of compare_datasets_async persists has a
\* status that the record it replaces (the job file, and the record the run
\* holds) may move to: the same or a later stage of PENDING, LOADING_DATA,
\* MAPPING, AGGREGATING, MERGING, STORING, COMPLETED, with COMPLETED only after
\* STORING, or FAILED from a status that is not terminal.
C1_StatusMovesForward ==
    [][\A j \in Jobs :
         (RunStep(j) /\ jobs_dir'[j] # NoJob /\ jobs_dir'[j] # jobs_dir[j]) =>
            /\ jobs_dir[j] # NoJob =>
                 MayWrite(jobs_dir[j].status, jobs_dir'[j].status)
            /\ jobs_cache["cmp"][j] # NoJob =>
                 MayWrite(jobs_cache["cmp"][j].status, jobs_dir'[j].status)]_vars

\* a run went through every stage and returned
C1_Witness ==
    \E j \in Jobs :
        /\ task[j].pc = "returned"
        /\ jobs_dir[j] # NoJob
        /\ jobs_dir[j].status = COMPLETED
        /\ jobs_dir[j].started_at # NoTime

\* C2: once the persisted status of a job is COMPLETED, FAILED or CANCELLED,
\* no step other than a delete of the job changes its persisted record.
C2_TerminalImmutable ==
    [][\A j \in Jobs :
         (/\ jobs_dir[j] # NoJob
          /\ jobs_dir[j].status \in Terminal
          /\ ~DeleteStep(j)) => jobs_dir'[j] = jobs_dir[j]]_vars

\* C3: a status poll that finds the job returns the status and the progress of
\* the snapshot persisted last.
C3_PollReturnsLatest ==
    \A j \in Jobs :
        (/\ resp.op = "status"
         /\ resp.job = j
         /\ resp.code = 200
         /\ jobs_dir[j] # NoJob) =>
            /\ resp.status = jobs_dir[j].status
            /\ resp.progress = jobs_dir[j].progress

\* C4: when the background task has ended through an exception, the job's
\* record has status FAILED and holds the exception's message as its error.
C4_ExceptionRecorded ==
    \A j \in Jobs :
        (RunFailed(j) /\ jobs_dir[j] # NoJob) =>
            /\ jobs_dir[j].status = FAILED
            /\ jobs_dir[j].error # None

\* C5: the error of a persisted record is set iff its status is FAILED, and a
\* status poll that reports FAILED reports the message.
C5_ErrorIffFailed ==
    /\ \A j \in Jobs :
         jobs_dir[j] # NoJob =>
            ((jobs_dir[j].error # None) <=> (jobs_dir[j].status = FAILED))
    /\ (resp.op = "status" /\ resp.code = 200) =>
            ((resp.error # None) <=> (resp.status = FAILED))

\* C6: a status poll that finds the job outside a terminal state never returns
\* less progress than the previous such poll of the job did, and the progress
\* of the record the run holds and persists never decreases outside a
\* terminal state.
C6_ProgressNeverDecreases ==
    [][\A j \in Jobs :
         /\ (/\ StatusCall(j)
             /\ resp'.code = 200
             /\ resp'.status \notin Terminal
             /\ seen[j] # NotSeen) => resp'.progress >= seen[j][1]
         /\ (/\ jobs_cache["cmp"][j] # NoJob
             /\ jobs_cache'["cmp"][j] # NoJob
             /\ jobs_cache'["cmp"][j].status \notin Terminal) =>
                jobs_cache'["cmp"][j].progress >= jobs_cache["cmp"][j].progress]_vars

\* a logged poll of a running job returned progress the run had made
C6_Witness ==
    \E j \in Jobs :
        /\ resp.op = "status"
        /\ resp.job = j
        /\ resp.code = 200
        /\ resp.status \notin Terminal
        /\ resp.progress >= 50
        /\ seen[j] = <<resp.progress>>
        /\ task[j].pc \in RunPcs

\* C7: right after DELETE /jobs/j answered 200 for a job whose run had
\* returned, the job has no persisted record and no result store file, and
\* query_results does not return rows for it.
C7_DeleteRemovesJobAndStore ==
    \A j \in Jobs :
        (/\ resp.op = "delete"
         /\ resp.job = j
         /\ resp.code = 200
         /\ task[j].pc = "returned") =>
            /\ jobs_dir[j] = NoJob
            /\ results_dir[get_result_db_path(j)] = NoDb
            /\ StatusResponse(j, get_job("api", j)).code = 404
            /\ ~(/\ query_results(j, DefaultPage).code = 200
                 /\ query_results(j, DefaultPage).status = COMPLETED)

\* C8: rows are returned only for a job whose status is COMPLETED and then
\* they are all the rows of the merged frame; and whenever a job is COMPLETED
\* (in its job file or for either manager) its result table, unless deleted,
\* holds all the rows of the merged frame.
C8_NoPartialResults ==
    /\ (/\ resp.op = "results"
        /\ resp.code = 200
        /\ resp.results > 0) =>
            /\ resp.status = COMPLETED
            /\ get_job("cmp", resp.job).status = COMPLETED
            /\ resp.total_rows = task[resp.job].total_rows
    /\ \A j \in Jobs :
         (/\ \/ jobs_dir[j] # NoJob /\ jobs_dir[j].status = COMPLETED
             \/ \E m \in Managers :
                    get_job(m, j) # NoJob /\ get_job(m, j).status = COMPLETED
          /\ results_dir[get_result_db_path(j)] # NoDb) =>
            /\ results_dir[get_result_db_path(j)].table
            /\ results_dir[get_result_db_path(j)].rows = task[j].total_rows

\* a results request returned the rows of a completed job
C8_Witness ==
    /\ resp.op = "results"
    /\ resp.code = 200
    /\ resp.status = COMPLETED
    /\ resp.results = MaxRows
    /\ resp.results > 0

\* the statuses of a job that is neither completed nor failed
Unfinished == {PENDING, LOADING_DATA, MAPPING, AGGREGATING, MERGING, STORING}

C10_UnknownJobNotFound ==
    [][\A j \in Jobs :
         jobs_dir[j] = NoJob =>
            /\ (StatusCall(j) \/ ResultsCall(j) \/ DeleteStep(j)) => resp'.code = 404
            /\ jobs_dir'[j] # NoJob => task[j].pc = "none"]_vars

\* the rows of the stored table that the client's filter keeps
Matching ==
    {comparison_results[i] : i \in
        {k \in 1..Len(comparison_results) :
            request.filter_status = None
            \/ comparison_results[k].status = request.filter_status}}

\* ceil(|Matching| / page_size)
PagesNeeded ==
    IF Matching = {} THEN 0
    ELSE ((Cardinality(Matching) - 1) \div request.page_size) + 1

\* the client asked for the pages 1..total_pages, one call each, in order
PagedThrough ==
    /\ PagesNeeded >= 1
    /\ Len(responses) = PagesNeeded
    /\ \A i \in 1..Len(responses) : responses[i].page = i

\* the places (call, position) at which the responses hold row r
PlacesOf(r) ==
    {c \in (1..Len(responses)) \X (1..MaxTableRows) :
        /\ c[2] <= Len(responses[c[1]].results)
        /\ responses[c[1]].results[c[2]] = r}

\* C11: when a client has fetched the pages 1..total_pages of a completed
\* job's table with a fixed page size and a fixed sort specification (no
\* filter), every row of the table is in exactly one place of the pages.
C11_PagesHoldEveryRowOnce ==
    (request.filter_status = None /\ PagedThrough) =>
        \A k \in 1..Len(comparison_results) :
            Cardinality(PlacesOf(comparison_results[k])) = 1

\* C12: two query_results calls with the same page, page size, filter and the
\* sort specification (wage_category ascending, ecc_amount descending) return
\* the same rows in the same order.
C12_SameQuerySameOrder ==
    request.sort_by = CategoryAmountSort =>
        \A i, k \in 1..Len(responses) :
            responses[i].page = responses[k].page =>
                responses[i].results = responses[k].results

\* C13: every response of query_results on a completed job has total_rows =
\* the number of rows matching the filter, total_pages = ceil(total_rows /
\* page_size), has_next = (page < total_pages), has_prev = (page > 1), and as
\* results the rows at the positions (page-1)*page_size+1 .. page*page_size of
\* the matching rows ordered by sort_by: distinct matching rows, the row at
\* position pos having at most pos-1 matching rows that sort strictly before
\* it and at least pos that do not sort after it; none past total_pages.
C13_PageOfOrderedRows ==
    \A i \in 1..Len(responses) :
        LET r == responses[i]
            order == build_order_clause(request.sort_by)
            first == (r.page - 1) * request.page_size + 1
            last == Min(r.page * request.page_size, Cardinality(Matching))
        IN /\ r.page_size = request.page_size
           /\ r.total_rows = Cardinality(Matching)
           /\ r.total_pages = PagesNeeded
           /\ r.has_next = (r.page < PagesNeeded)
           /\ r.has_prev = (r.page > 1)
           /\ r.page > PagesNeeded => r.results = << >>
           /\ Len(r.results) = Max(0, last - first + 1)
           /\ \A p, q \in 1..Len(r.results) :
                 p # q => r.results[p] # r.results[q]
           /\ \A p \in 1..Len(r.results) :
                 LET x == r.results[p]
                     pos == first + p - 1
                 IN /\ x \in Matching
                    /\ Cardinality({y \in Matching : Before(y, x, order)}) <= pos - 1
                    /\ Cardinality({y \in Matching : ~Before(x, y, order)}) >= pos

\* the second page of three rows matching the filter, with page size 2, and a
\* page past the end
C13_Witness ==
    /\ request.filter_status = "Matched"
    /\ request.page_size = 2
    /\ Len(responses) = 2
    /\ responses[1].page = 2
    /\ Len(responses[1].results) = 1
    /\ responses[1].total_rows = 3
    /\ responses[1].has_prev
    /\ ~responses[1].has_next
    /\ responses[2].page = 3
    /\ responses[2].results = << >>

\* C14: once the persisted status of a job is CANCELLED it stays CANCELLED (no
\* step of the pipeline or of its exception handlers overwrites it), and the
\* pipeline starts no further stage for the job: its run does not advance
\* and no result store file is created for it.
C14_CancelledAborts ==
    [][\A j \in Jobs :
         (jobs_dir[j] # NoJob /\ jobs_dir[j].status = CANCELLED) =>
            /\ jobs_dir'[j] # NoJob
            /\ jobs_dir'[j].status = CANCELLED
            /\ task'[j].pc \in RunPcs => task'[j].pc = task[j].pc
            /\ results_dir[get_result_db_path(j)] = NoDb =>
                    results_dir'[get_result_db_path(j)] = NoDb]_vars

\* C15: no job record has an empty dataset name, and POST /start never
\* answers with a job id for a request with an empty dataset name.
C15_EmptyNameRejected ==
    /\ \A j \in Jobs :
         jobs_dir[j] # NoJob =>
            jobs_dir[j].ecc_dataset # "" /\ jobs_dir[j].ecp_dataset # ""
    /\ resp.op = "start" => (resp.ecc_dataset # "" /\ resp.ecp_dataset # "")

\* the rows of the computed frame
Rows == IF result_df = NoFrame THEN << >> ELSE result_df.rows

\* C16: every row of the merged frame has difference = ecp_amount -
\* ecc_amount, the rows with a side that is missing and filled with 0 included.
C16_DifferenceIsTargetMinusSource ==
    \A i \in 1..Len(Rows) :
        Rows[i].difference = Rows[i].ecp_amount - Rows[i].ecc_amount

\* a frame with a row that has both sides and a row without ECC records
C16_Witness ==
    \E i, k \in 1..Len(Rows) :
        /\ Rows[i].ecc_amount = 2
        /\ Rows[i].ecp_amount = -1
        /\ Rows[i].difference = -3
        /\ Rows[k].ecc_amount = 0
        /\ Rows[k].ecp_amount = 1
        /\ Rows[k].difference = 1
        /\ \A n \in 1..Len(ecc_ddf) :
              MappedEcp(mappings_cache.emp_map, ecc_ddf[n].PersNo) # Rows[k].ecp_id

\* the status the specification gives the sums s (source) and t (target)
SpecifiedStatus(s, t) ==
    IF s > 0 /\ t > 0 THEN "Matched"
    ELSE IF s > 0 /\ t = 0 THEN "ECC Only"
    ELSE "ECP Only"

\* C17: every row of the merged frame, negative sums included, has the status
\* 'Matched' iff ecc_amount > 0 and ecp_amount > 0, 'ECC Only' iff ecc_amount
\* > 0 and ecp_amount = 0, and 'ECP Only' in all other cases.
C17_StatusAsSpecified ==
    \A i \in 1..Len(Rows) :
        Rows[i].status = SpecifiedStatus(Rows[i].ecc_amount, Rows[i].ecp_amount)

\* the ECC records whose id is a key of emp_map
MappedRecords ==
    SelectSeq(ecc_ddf, LAMBDA r : r.PersNo \in DOMAIN mappings_cache.emp_map)

\* C18: the merged frame is the one computed without the ECC records whose
\* id has no entry in emp_map, and it has no row keyed by the id of such a
\* record.
C18_UnmappedExcluded ==
    result_df # NoFrame =>
        /\ Rows = Merged(MappedRecords, ecp_ddf,
                         mappings_cache.emp_map, mappings_cache.wt_map)
        /\ \A i \in 1..Len(Rows), n \in 1..Len(ecc_ddf) :
              ecc_ddf[n].PersNo \notin DOMAIN mappings_cache.emp_map =>
                  Rows[i].ecp_id # ecc_ddf[n].PersNo

\* a frame computed from a mapped and an unmapped ECC record of the same
\* wage type
C18_Witness ==
    /\ result_df # NoFrame
    /\ Len(ecc_ddf) = 2
    /\ ecc_ddf[1].PersNo \in DOMAIN mappings_cache.emp_map
    /\ ecc_ddf[2].PersNo \notin DOMAIN mappings_cache.emp_map
    /\ ecc_ddf[1].WT = ecc_ddf[2].WT
    /\ \E i \in 1..Len(Rows) : Rows[i].ecc_amount = ecc_ddf[1].amount

\* the sum of the amounts of the records of ddf at the indices S
RECURSIVE SumAt(_, _)
SumAt(ddf, S) ==
    IF S = {} THEN 0
    ELSE LET i == CHOOSE i \in S : TRUE
         IN ddf[i].amount + SumAt(ddf, S \ {i})

\* the indices of the mapped ECC records, and of the ECP records, of key k
EccRecordsOf(k) ==
    {i \in 1..Len(ecc_ddf) :
        /\ ecc_ddf[i].PersNo \in DOMAIN mappings_cache.emp_map
        /\ mappings_cache.emp_map[ecc_ddf[i].PersNo] = k[1]
        /\ ecc_ddf[i].WT = k[2]}
EcpRecordsOf(k) ==
    {i \in 1..Len(ecp_ddf) : ecp_ddf[i].PersNo = k[1] /\ ecp_ddf[i].WT = k[2]}

\* C19: the merged frame has exactly one row per key (id, code) that has a
\* mapped ECC record or an ECP record, and no other row; the row's ecc_amount
\* is the sum of the amounts of the mapped ECC records of the key, its
\* ecp_amount the sum of the amounts of the ECP records of the key (0 for a
\* side without records), whatever the order of the records and the
\* partitions they fall in.
C19_OneRowPerKeyWithSums ==
    result_df # NoFrame =>
        /\ \A k \in (EcpIds \cup EccIds \cup {NaN}) \X WTs :
              Cardinality({i \in 1..Len(Rows) :
                              Rows[i].ecp_id = k[1] /\ Rows[i].wage_type = k[2]})
                = IF EccRecordsOf(k) # {} \/ EcpRecordsOf(k) # {} THEN 1 ELSE 0
        /\ \A i \in 1..Len(Rows) :
              LET k == <<Rows[i].ecp_id, Rows[i].wage_type>> IN
              /\ Rows[i].ecc_amount = SumAt(ecc_ddf, EccRecordsOf(k))
              /\ Rows[i].ecp_amount = SumAt(ecp_ddf, EcpRecordsOf(k))

\* two ECC ids mapped to one ECP id are summed in one row, in two partitions,
\* and a second row has ECP records only
C19_Witness ==
    /\ Len(Rows) = 2
    /\ Len(ecc_ddf) = 2
    /\ ecc_ddf[1].PersNo # ecc_ddf[2].PersNo
    /\ NPartitions(Len(ecc_ddf)) = Len(ecc_ddf)
    /\ \E i, k \in 1..2 :
          /\ Rows[i].ecc_amount = 2
          /\ Rows[i].ecp_amount = 0
          /\ Rows[k].ecc_amount = 0
          /\ Rows[k].ecp_amount = 2

\* the value is written with digits, commas and at most one decimal point,
\* and has a digit
PlainNumber(str) ==
    /\ \A i \in 1..Len(str) : str[i] \in Digits \cup {",", "."}
    /\ to_numeric(StrReplace(str, ",", << >>)).ok

\* the number a plain value denotes once its commas are stripped
PlainValue(str) == to_numeric(StrReplace(str, ",", << >>)).value

\* C20: normalize_amount_column gives every string a number: the number with
\* the commas stripped for a plain value, its negation for a plain value
\* wrapped in parentheses and for a plain value followed by a minus sign, and
\* 0 for the empty string and for a value with a letter.
C20_AmountNormalized ==
    amount # NoAmount =>
        LET n == Len(Amount)
            inner == SubSeq(Amount, 2, n - 1)
            front == SubSeq(Amount, 1, n - 1)
        IN /\ amount.value \in Int
           /\ PlainNumber(Amount) => amount.value = PlainValue(Amount)
           /\ (n >= 3 /\ Amount[1] = "(" /\ Amount[n] = ")" /\ PlainNumber(inner))
                 => amount.value = -PlainValue(inner)
           /\ (n >= 2 /\ Amount[n] = "-" /\ PlainNumber(front))
                 => amount.value = -PlainValue(front)
           /\ (n = 0 \/ \E i \in 1..n : Amount[i] = "x") => amount.value = 0

\* C23: every persisted job record whose status is COMPLETED or FAILED has a
\* completion timestamp, whichever update_job call gave it the status (one
\* with status=COMPLETED, one with status=FAILED, or one with only an error).
C23_TerminalHasCompletedAt ==
    \A j \in Jobs :
        (jobs_dir[j] # NoJob /\ jobs_dir[j].status \in {COMPLETED, FAILED}) =>
            jobs_dir[j].completed_at # NoTime

\* C27: whenever the comparator's JobManager reads the status COMPLETED for a
\* job, the record names a result store that exists and its metadata holds the
\* summary, and query_results answers with the rows of the job (neither
\* 'Result database not found' nor any other error).
C27_CompletedHasStore ==
    \A j \in Jobs :
        (get_job("cmp", j) # NoJob /\ get_job("cmp", j).status = COMPLETED) =>
            /\ get_job("cmp", j).result_path # 0
            /\ results_dir[get_job("cmp", j).result_path] # NoDb
            /\ Has(get_job("cmp", j).metadata, "summary")
            /\ query_results(j, DefaultPage).code = 200

\* C28: once a started job has no job file (DELETE /jobs/j answered 200), no
\* later step gives it one again, every status request for it answers 404,
\* and no step creates a result store file for it.
C28_DeletedStaysDeleted ==
    [][\A j \in Jobs :
         (jobs_dir[j] = NoJob /\ task[j].pc # "none") =>
            /\ jobs_dir'[j] = NoJob
            /\ StatusCall(j) => resp'.code = 404
            /\ results_dir[get_result_db_path(j)] = NoDb =>
                  results_dir'[get_result_db_path(j)] = NoDb]_vars

\* C30: a row of the merged frame whose key has mapped ECC records and no ECP
\* record does not have the status 'ECP Only', and a row whose key has ECP
\* records and no mapped ECC record does not have the status 'ECC Only'.
C30_StatusNamesSidePresent ==
    \A i \in 1..Len(Rows) :
        LET k == <<Rows[i].ecp_id, Rows[i].wage_type>> IN
        /\ (EccRecordsOf(k) # {} /\ EcpRecordsOf(k) = {}) =>
              Rows[i].status # "ECP Only"
        /\ (EcpRecordsOf(k) # {} /\ EccRecordsOf(k) = {}) =>
              Rows[i].status # "ECC Only"

\* C29: when nobody deletes jobs and every step of the background task returns
\* or raises, every job started through POST /start reaches a point from which
\* its persisted status is COMPLETED or FAILED for good, and the record of a
\* job whose background task has ended is COMPLETED or FAILED.
C29_EndsCompletedOrFailed ==
    /\ \A j \in Jobs :
         (task[j].pc # "none") ~>
            [](jobs_dir[j] # NoJob /\ jobs_dir[j].status \in {COMPLETED, FAILED})
    /\ [](\A j \in Jobs :
            task[j].pc \in {"returned", "handled", "unhandled"} =>
               (jobs_dir[j] # NoJob /\ jobs_dir[j].status \in {COMPLETED, FAILED}))

\* a job started through POST /start whose pipeline raised after the frame
\* was stored, and whose background task has ended
C29_Witness ==
    \E j \in Jobs :
        /\ task[j].mode = "api"
        /\ task[j].pc = "handled"
        /\ results_dir[get_result_db_path(j)] # NoDb
        /\ jobs_dir[j].status = FAILED

\* this step is a call update_job(job_id=j, **resp'.call) that found the job
UpdateStep(j) ==
    /\ resp'.op = "update_job"
    /\ resp'.job = j
    /\ get_job("cmp", j) # NoJob

C24_SecondCompletionIsNoOp ==
    [][\A j \in Jobs :
         (/\ UpdateStep(j)
          /\ get_job("cmp", j).status \in {COMPLETED, FAILED}
          /\ Has(resp'.call, "status")
          /\ resp'.call.status \in {COMPLETED, FAILED}
          /\ ~Has(resp'.call, "error")) =>
            LET before == get_job("cmp", j)
                after == jobs_cache'["cmp"][j]
            IN /\ after.status = before.status
               /\ after.completed_at = before.completed_at
               /\ [after EXCEPT !.progress_message = before.progress_message]
                     = before]_vars

\* C25: after an update_job call that passes an error, the job's status is
\* FAILED and its error is the one passed, in the manager's record and in the
\* job file, whatever status the call passed and whatever the status was.
C25_ErrorForcesFailed ==
    [][\A j \in Jobs :
         (UpdateStep(j) /\ Has(resp'.call, "error")) =>
            /\ jobs_cache'["cmp"][j].status = FAILED
            /\ jobs_cache'["cmp"][j].error = resp'.call.error
            /\ jobs_dir'[j] = jobs_cache'["cmp"][j]]_vars

\* update_job(status=COMPLETED, error=...) was called and the job is FAILED
C25_Witness ==
    \E j \in Jobs :
        /\ resp.op = "update_job"
        /\ resp.job = j
        /\ Has(resp.call, "error")
        /\ Has(resp.call, "status")
        /\ resp.call.status = COMPLETED
        /\ jobs_dir[j] # NoJob
        /\ jobs_dir[j].status = FAILED
        /\ jobs_dir[j].error = ErrStep
        /\ jobs_dir[j].completed_at # NoTime

\* the result store file of job j, and the rows of its table
StoreOf(j) == results_dir[get_result_db_path(j)]
StoredRows(j) == StoreOf(j).comparison_results

\* the indices of the rows of a table that have status s
WithStatus(table, s) == {i \in 1..Len(table) : table[i].status = s}

\* the sum of column col of the rows of a table at the indices S
RECURSIVE ColumnSumAt(_, _, _)
ColumnSumAt(table, col, S) ==
    IF S = {} THEN 0
    ELSE LET i == CHOOSE i \in S : TRUE
         IN table[i][col] + ColumnSumAt(table, col, S \ {i})

\* C21: when the run of a job has returned and the job's persisted status is
\* COMPLETED, the summary in its metadata describes the rows of its result
\* store (while the store exists): total_rows is their number, matched_count,
\* ecc_only_count and ecp_only_count count the rows of the three statuses and
\* add up to total_rows, the two totals are the sums of the amount columns,
\* and the job's total_rows and processed_rows are the number of stored rows.
C21_SummaryAgreesWithStore ==
    \A j \in Jobs :
        (/\ task[j].pc = "returned"
         /\ jobs_dir[j] # NoJob
         /\ jobs_dir[j].status = COMPLETED
         /\ StoreOf(j) # NoDb) =>
            LET t == StoredRows(j)
                s == jobs_dir[j].metadata.summary
            IN /\ s.total_rows = Len(t)
               /\ s.matched_count = Cardinality(WithStatus(t, "Matched"))
               /\ s.ecc_only_count = Cardinality(WithStatus(t, "ECC Only"))
               /\ s.ecp_only_count = Cardinality(WithStatus(t, "ECP Only"))
               /\ s.matched_count + s.ecc_only_count + s.ecp_only_count
                     = s.total_rows
               /\ s.total_ecc_amount = ColumnSumAt(t, "ecc_amount", 1..Len(t))
               /\ s.total_ecp_amount = ColumnSumAt(t, "ecp_amount", 1..Len(t))
               /\ jobs_dir[j].total_rows = Len(t)
               /\ jobs_dir[j].processed_rows = Len(t)

\* a completed job whose store holds an 'ECC Only' and an 'ECP Only' row
C21_Witness ==
    \E j \in Jobs :
        /\ task[j].pc = "returned"
        /\ jobs_dir[j] # NoJob
        /\ jobs_dir[j].status = COMPLETED
        /\ StoreOf(j) # NoDb
        /\ Len(StoredRows(j)) = 2
        /\ jobs_dir[j].metadata.summary.ecc_only_count = 1
        /\ jobs_dir[j].metadata.summary.ecp_only_count = 1
        /\ jobs_dir[j].metadata.summary.total_ecc_amount = 1
        /\ jobs_dir[j].metadata.summary.total_ecp_amount = -1

\* C26: a step that finds the result store file of a job leaves its table as
\* it is, unless it is a delete of the job, which removes the file, or the
\* INSERT of the run that has just created the table, which fills the empty
\* table with the rows of the frame: neither a results request nor a further
\* compare_datasets_async run for the same job id changes a stored row.
C26_StoreWrittenOnce ==
    [][\A j \in Jobs :
         StoreOf(j) # NoDb =>
            \/ results_dir'[get_result_db_path(j)] = StoreOf(j)
            \/ /\ DeleteStep(j)
               /\ results_dir'[get_result_db_path(j)] = NoDb
            \/ /\ task[j].pc = "insert"
               /\ task'[j].pc = NextPc("insert")
               /\ StoredRows(j) = << >>
               /\ results_dir'[get_result_db_path(j)] # NoDb
               /\ results_dir'[get_result_db_path(j)].comparison_results
                     = result_df.rows]_vars

\* a second run for a job whose store holds rows was rejected at CREATE TABLE
C26_Witness ==
    \E j \in Jobs :
        /\ Runs(j) = 2
        /\ task[j].pc = "raised"
        /\ task[j].exc = ErrStep
        /\ StoreOf(j) # NoDb
        /\ Len(StoredRows(j)) >= 1
        /\ jobs_dir[j] # NoJob
        /\ jobs_dir[j].status = FAILED
        /\ jobs_dir[j].progress = 85
====
